---- MODULE Spec2Model ----
(***************************************************************************)
(* Project Aegis, src/tasks/01_project_aegis/main.py: the shotgun search   *)
(* fetch_and_process (acquisition loop and conditioning pipeline) and the  *)
(* ranking/reporting routine run_ai_scan.                                  *)
(*                                                                         *)
(* Three specifications share the variables:                               *)
(*   Spec      fetch_and_process, from its first line to its return;       *)
(*   SpecScan  run_ai_scan, from its call with a matrix X and its ids;     *)
(*   SpecFlux  lines 83-89 alone (length reconciliation, nan_to_num) on    *)
(*             every resampled flux of the bounded input set.              *)
(* The collaborators (lightkurve, IsolationForest, matplotlib) are         *)
(* nondeterministic choices over what they can hand back.                  *)
(***************************************************************************)
EXTENDS Integers, Sequences, FiniteSets, TLC

VARIABLES
    pc,               \* position in the routine under way
    anchor_idx,       \* 1-based position of the `for anchor` loop in ANCHOR_STARS
    anchor,           \* loop variable `anchor` of the last iteration entered
    needed,           \* local `needed`, the limit of the last search
    searches,         \* number of lk.search_lightcurve calls made so far
    search_table,     \* search.table['target_name'], one name per row
    lcs,              \* the downloaded collection
    i,                \* enumerate index of the series loop (0-based)
    all_data,         \* the feature matrix under construction
    all_ids,          \* the identifier list under construction
    all_src,          \* per row, the target_name of the series it came from
    log,              \* the last status line printed by fetch_and_process
    lc_flux,          \* lc.flux.value of line 83
    flux,             \* local `flux` of lines 83-89
    X,                \* run_ai_scan argument X
    ids,              \* run_ai_scan argument ids
    predictions,      \* clf.predict(X)
    scores,           \* clf.decision_function(X)
    scored_anomalies, \* sorted (idx, score) pairs
    rank,             \* enumerate index of the rendering loop (0-based)
    artifacts,        \* the files written by plt.savefig, in order
    fit_calls         \* number of clf.fit calls

loop_vars == <<anchor_idx, anchor, needed, searches, search_table, lcs, i, log>>
data_vars == <<all_data, all_ids, all_src>>
fetch_vars == <<loop_vars, data_vars>>
flux_vars == <<lc_flux, flux>>
scan_vars == <<X, ids, predictions, scores, scored_anomalies, rank, artifacts,
               fit_calls>>
vars == <<pc, fetch_vars, flux_vars, scan_vars>>

(***************************************************************************)
(* Configuration.  The two sizes are 500 in the source; the model runs     *)
(* them scaled down, and they are the bounds of the model.                 *)
(***************************************************************************)
POINTS_PER_CURVE == 2

TARGET_TOTAL_STARS == 2

ANCHOR_STARS == <<"TIC 471016584", "TIC 233681149", "TIC 261136679">>

(***************************************************************************)
(* Floating point values of a flux array, by name.                         *)
(***************************************************************************)
NaN == "nan"
PosInf == "inf"
NegInf == "-inf"
One == "1.0"
Dip == "0.98"
FloatMax == "1.7976931348623157e+308"
FloatMin == "-1.7976931348623157e+308"

Invalid == {NaN, PosInf, NegInf}

RECURSIVE SeqsUpTo(_, _)
SeqsUpTo(S, n) ==
    IF n = 0 THEN {<<>>}
    ELSE LET shorter == SeqsUpTo(S, n - 1)
         IN  shorter \cup {Append(s, e) : s \in {t \in shorter : Len(t) = n - 1}, e \in S}

(***************************************************************************)
(* Lines 83-89: length reconciliation and invalid-value replacement.       *)
(***************************************************************************)
\* np.pad with the two widths exchanged: the padding goes in front
PadFront(a, before, after, value) ==
    [j \in 1..after |-> value] \o a \o [j \in 1..before |-> value]

\* np.pad(a, (before, after), constant_values=value) on a 1-D array
Pad(a, before, after, value) ==
    [j \in 1..before |-> value] \o a \o [j \in 1..after |-> value]

\* lines 84-87
Reconcile(f) ==
    IF Len(f) > POINTS_PER_CURVE
    THEN SubSeq(f, 1, POINTS_PER_CURVE)
    ELSE IF Len(f) < POINTS_PER_CURVE
         THEN Pad(f, 0, POINTS_PER_CURVE - Len(f), One)
         ELSE f

\* line 89 left out: the array is appended as it is
NanToNumKeep(a, nan) == a

\* np.nan_to_num(a, nan=nan): NaN becomes `nan`, the infinities become the
\* largest and the smallest finite float
NanToNum(a, nan) ==
    [j \in 1..Len(a) |->
        IF a[j] = NaN THEN nan
        ELSE IF a[j] = PosInf THEN FloatMax
        ELSE IF a[j] = NegInf THEN FloatMin
        ELSE a[j]]

(***************************************************************************)
(* str() of a natural number: its decimal digits, one character each.      *)
(***************************************************************************)
Digit(d) == <<"0", "1", "2", "3", "4", "5", "6", "7", "8", "9">>[d + 1]

RECURSIVE Str(_)
Str(n) == IF n < 10 THEN <<Digit(n)>> ELSE Str(n \div 10) \o <<Digit(n % 10)>>

(***************************************************************************)
(* What the acquisition collaborator can hand back.                        *)
(***************************************************************************)
\* target_name cells of a search table (TIC numbers)
TargetNames == {7, 90}

\* lk.search_lightcurve(anchor, radius=3.0, limit=limit, author="SPOC"):
\* it raises, or returns a table of at most `limit` rows (possibly none)
SearchOutcomes(limit) ==
    {[raised |-> TRUE, table |-> <<>>]}
    \cup {[raised |-> FALSE, table |-> t] : t \in SeqsUpTo(TargetNames, limit)}

\* An entry of the downloaded collection: the table row it was downloaded
\* for, or NoneLc for an entry that is None.
NoneLc == 0

\* The collection for one outcome per table row: row n downloaded ("ok"),
\* delivered as None ("none"), or left out of the collection ("missing").
RECURSIVE Collect(_, _)
Collect(o, n) ==
    IF n = 0 THEN <<>>
    ELSE LET before == Collect(o, n - 1)
         IN  CASE o[n] = "ok" -> Append(before, n)
               [] o[n] = "none" -> Append(before, NoneLc)
               [] OTHER -> before

\* search.download_all(): it raises, returns None, or returns a collection
DownloadOutcomes(table) ==
    {[kind |-> "raise", lcs |-> <<>>], [kind |-> "None", lcs |-> <<>>]}
    \cup {[kind |-> "collection", lcs |-> Collect(o, Len(table))] :
            o \in [1..Len(table) -> {"ok", "none", "missing"}]}

\* The calls of the cleaning pipeline that can raise, lines 72-81
PipelineCalls == {"remove_nans", "remove_outliers", "flatten", "normalize", "bin"}

\* Flux values of the resampled series read by fetch_and_process
FetchValues == {Dip, NaN}

\* lc.flux.value after lc.bin: any length from 0 to one more than N
FetchFlux == SeqsUpTo(FetchValues, POINTS_PER_CURVE + 1)

\* One downloaded light curve, as far as lines 72-83 read it: the pipeline
\* call that raises on it (or "none"), its time stamps after cleaning, and
\* the flux its binning yields.
SeriesInputs ==
    {[exc |-> c, times |-> <<0, 1>>, flux |-> <<>>] : c \in PipelineCalls}
    \cup {[exc |-> "none", times |-> t, flux |-> <<>>] : t \in {<<>>, <<0>>, <<1, 1>>}}
    \cup {[exc |-> "none", times |-> <<0, 1>>, flux |-> f] : f \in FetchFlux}

SeqMax(s) == CHOOSE m \in {s[j] : j \in DOMAIN s} : \A j \in DOMAIN s : s[j] <= m
SeqMin(s) == CHOOSE m \in {s[j] : j \in DOMAIN s} : \A j \in DOMAIN s : s[j] >= m

\* Lines 72-89 with the test of line 78 written `duration < 0`
ConditionStrictSpan(lc) ==
    IF lc.exc \in {"remove_nans", "remove_outliers", "flatten", "normalize"}
    THEN [kind |-> "raise", flux |-> <<>>]
    ELSE IF lc.times = <<>>
    THEN [kind |-> "raise", flux |-> <<>>]
    ELSE LET duration == SeqMax(lc.times) - SeqMin(lc.times)
         IN  IF duration < 0
             THEN [kind |-> "continue", flux |-> <<>>]
             ELSE IF lc.exc = "bin"
             THEN [kind |-> "raise", flux |-> <<>>]
             ELSE [kind |-> "append", flux |-> NanToNum(Reconcile(lc.flux), One)]

(***************************************************************************)
(* Lines 72-89 on one light curve: "raise" (caught at line 94), "continue" *)
(* (line 78) or "append" with the vector of line 89.                       *)
(***************************************************************************)
Condition(lc) ==
    IF lc.exc \in {"remove_nans", "remove_outliers", "flatten", "normalize"}
    THEN [kind |-> "raise", flux |-> <<>>]
    ELSE IF lc.times = <<>>
    THEN [kind |-> "raise", flux |-> <<>>]      \* max() of an empty array
    ELSE LET duration == SeqMax(lc.times) - SeqMin(lc.times)
         IN  IF duration <= 0
             THEN [kind |-> "continue", flux |-> <<>>]
             ELSE IF lc.exc = "bin"
             THEN [kind |-> "raise", flux |-> <<>>]
             ELSE [kind |-> "append", flux |-> NanToNum(Reconcile(lc.flux), One)]

\* lines 66-69: the name is looked up by the position in the collection;
\* a failing lookup gives Star_<i>
NameAt(table, idx) ==
    IF idx + 1 \in DOMAIN table
    THEN Str(table[idx + 1])
    ELSE <<"S", "t", "a", "r", "_">> \o Str(idx)

(***************************************************************************)
(* fetch_and_process                                                       *)
(***************************************************************************)
\* line 39 asking for the whole target at every anchor
NeededFull(count) == TARGET_TOTAL_STARS

\* line 39
Needed(count) == TARGET_TOTAL_STARS - count

\* `continue` of the anchor loop (lines 55, 58, 101) and the end of its body;
\* search, lcs and i are assigned again before they are read
Continue ==
    /\ pc' = "anchor"
    /\ anchor_idx' = anchor_idx + 1
    /\ search_table' = <<>>
    /\ lcs' = <<>>
    /\ i' = 0

\* lines 99-101 without the handler: the exception leaves fetch_and_process
SectorErrorReraise ==
    /\ pc' = "raised"
    /\ UNCHANGED <<anchor_idx, search_table, lcs, i, log>>

\* lines 99-101: an exception of the sector is printed and the loop goes on
SectorError ==
    /\ log' = "Error in this sector"
    /\ Continue

\* line 36, list exhausted: the loop ends and line 103 returns
AnchorsExhausted ==
    /\ pc = "anchor"
    /\ anchor_idx > Len(ANCHOR_STARS)
    /\ pc' = "returned"
    /\ UNCHANGED <<fetch_vars, flux_vars, scan_vars>>

\* lines 36-37: the target is reached, break
BreakOnTarget ==
    /\ pc = "anchor"
    /\ anchor_idx <= Len(ANCHOR_STARS)
    /\ Len(all_data) >= TARGET_TOTAL_STARS
    /\ anchor' = ANCHOR_STARS[anchor_idx]
    /\ pc' = "returned"
    /\ UNCHANGED <<anchor_idx, needed, searches, search_table, lcs, i, log,
                   data_vars, flux_vars, scan_vars>>

\* lines 36-55 when lk.search_lightcurve hands back `search`
SearchWith(search) ==
    /\ pc = "anchor"
    /\ anchor_idx <= Len(ANCHOR_STARS)
    /\ ~(Len(all_data) >= TARGET_TOTAL_STARS)
    /\ anchor' = ANCHOR_STARS[anchor_idx]
    /\ needed' = Needed(Len(all_data))
    /\ searches' = searches + 1
    /\ IF search.raised
       THEN SectorError
       ELSE IF Len(search.table) = 0
       THEN /\ log' = "Sector empty or busy. Skipping..."
            /\ Continue
       ELSE /\ log' = "Locked on stars"
            /\ search_table' = search.table
            /\ pc' = "download"
            /\ UNCHANGED <<anchor_idx, lcs, i>>
    /\ UNCHANGED <<data_vars, flux_vars, scan_vars>>

SearchLightcurve ==
    \E search \in SearchOutcomes(Needed(Len(all_data))) : SearchWith(search)

\* lines 57-60 when search.download_all hands back `d`
DownloadWith(d) ==
    /\ pc = "download"
    /\ IF d.kind = "raise"
       THEN SectorError
       ELSE IF d.kind = "None" \/ Len(d.lcs) = 0
       THEN /\ Continue
            /\ UNCHANGED log
       ELSE /\ log' = "Filtering & Processing..."
            /\ lcs' = d.lcs
            /\ i' = 0
            /\ pc' = "series"
            /\ UNCHANGED <<anchor_idx, search_table>>
    /\ UNCHANGED <<anchor, needed, searches, data_vars, flux_vars, scan_vars>>

DownloadAll ==
    \E d \in DownloadOutcomes(search_table) : DownloadWith(d)

\* lines 62-64, an entry that is None
SkipNone ==
    /\ pc = "series"
    /\ i < Len(lcs)
    /\ lcs[i + 1] = NoneLc
    /\ i' = i + 1
    /\ pc' = "series"
    /\ UNCHANGED <<anchor_idx, anchor, needed, searches, search_table, lcs, log,
                   data_vars, flux_vars, scan_vars>>

\* lines 62-95 with the identifier appended as soon as it is looked up
ProcessOneNameFirst(lc) ==
    /\ pc = "series"
    /\ i < Len(lcs)
    /\ lcs[i + 1] # NoneLc
    /\ LET name == NameAt(search_table, i)
           r == Condition(lc)
       IN  /\ all_ids' = Append(all_ids, name)
           /\ IF r.kind = "append"
              THEN /\ all_data' = Append(all_data, r.flux)
                   /\ all_src' = Append(all_src, Str(search_table[lcs[i + 1]]))
              ELSE UNCHANGED <<all_data, all_src>>
    /\ i' = i + 1
    /\ pc' = "series"
    /\ UNCHANGED <<anchor_idx, anchor, needed, searches, search_table, lcs, log,
                   flux_vars, scan_vars>>

\* lines 62-95, one iteration of the series loop on the light curve lc
ProcessOne(lc) ==
    /\ pc = "series"
    /\ i < Len(lcs)
    /\ lcs[i + 1] # NoneLc
    /\ LET name == NameAt(search_table, i)
           r == Condition(lc)
       IN  IF r.kind = "append"
           THEN /\ all_data' = Append(all_data, r.flux)
                /\ all_ids' = Append(all_ids, name)
                /\ all_src' = Append(all_src, Str(search_table[lcs[i + 1]]))
           ELSE UNCHANGED data_vars      \* lines 78 and 94-95
    /\ i' = i + 1
    /\ pc' = "series"
    /\ UNCHANGED <<anchor_idx, anchor, needed, searches, search_table, lcs, log,
                   flux_vars, scan_vars>>

ProcessSeries ==
    \E lc \in SeriesInputs : ProcessOne(lc)

\* line 97 and the end of the loop body
EndOfBatch ==
    /\ pc = "series"
    /\ i = Len(lcs)
    /\ log' = "Total Harvest"
    /\ Continue
    /\ UNCHANGED <<anchor, needed, searches, data_vars, flux_vars, scan_vars>>

ScanIdle ==
    /\ X = <<>>
    /\ ids = <<>>
    /\ predictions = <<>>
    /\ scores = <<>>
    /\ scored_anomalies = <<>>
    /\ rank = 0
    /\ artifacts = <<>>
    /\ fit_calls = 0

FluxIdle ==
    /\ lc_flux = <<>>
    /\ flux = <<>>

FetchIdle ==
    /\ anchor_idx = 1
    /\ anchor = ""
    /\ needed = 0
    /\ searches = 0
    /\ search_table = <<>>
    /\ lcs = <<>>
    /\ i = 0
    /\ log = "INITIATING SHOTGUN SEARCH..."
    /\ all_data = <<>>
    /\ all_ids = <<>>
    /\ all_src = <<>>

\* lines 31-34
Init ==
    /\ pc = "anchor"
    /\ FetchIdle
    /\ FluxIdle
    /\ ScanIdle

Next ==
    \/ AnchorsExhausted
    \/ BreakOnTarget
    \/ SearchLightcurve
    \/ DownloadAll
    \/ SkipNone
    \/ ProcessSeries
    \/ EndOfBatch

Spec == Init /\ [][Next]_vars

(***************************************************************************)
(* Lines 83-89 on their own: every resampled flux of up to N+1 values.     *)
(***************************************************************************)
FluxValues == {Dip, One, NaN, PosInf, NegInf}

ResampledFlux == SeqsUpTo(FluxValues, POINTS_PER_CURVE + 1)

\* line 83
FluxInit ==
    /\ pc = "binned"
    /\ lc_flux \in ResampledFlux
    /\ flux = lc_flux
    /\ FetchIdle
    /\ ScanIdle

\* lines 84-87
ReconcileLength ==
    /\ pc = "binned"
    /\ flux' = Reconcile(flux)
    /\ pc' = "reconciled"
    /\ UNCHANGED <<lc_flux, fetch_vars, scan_vars>>

\* line 89
ReplaceInvalid ==
    /\ pc = "reconciled"
    /\ flux' = NanToNum(flux, One)
    /\ pc' = "replaced"
    /\ UNCHANGED <<lc_flux, fetch_vars, scan_vars>>

NextFlux ==
    \/ ReconcileLength
    \/ ReplaceInvalid

SpecFlux == FluxInit /\ [][NextFlux]_vars

(***************************************************************************)
(* run_ai_scan                                                             *)
(***************************************************************************)
\* Rows a returned matrix can hold: N valid values each
ScanRows ==
    {[j \in 1..POINTS_PER_CURVE |-> One],
     [j \in 1..POINTS_PER_CURVE |-> IF j = 1 THEN Dip ELSE One]}

\* Identifiers a returned list can hold: any string, the empty one included
ScanIds == {<<>>, <<"T", " ", "7">>, <<"a", "/", "b">>}

\* Labels of clf.predict and values of clf.decision_function
Labels == {1, -1}
ScoreValues == {-2, -1, 1}

\* line 106 testing for a missing matrix instead of an empty one
NoDataIsNone(M) == FALSE

\* line 106
NoData(M) == Len(M) = 0

\* np.where(p == label)[0]: the positions holding `label`, ascending
\* (positions are 1-based here, 0-based in the source)
RECURSIVE Where(_, _)
Where(p, label) ==
    IF p = <<>> THEN <<>>
    ELSE LET n == Len(p)
             before == Where(SubSeq(p, 1, n - 1), label)
         IN  IF p[n] = label THEN Append(before, n) ELSE before

\* zip(indices, scores[indices])
ZipScores(indices, sc) == [k \in 1..Len(indices) |-> <<indices[k], sc[indices[k]]>>]

\* sorted(pairs, key=lambda x: x[1]): ascending by score, and stable
RECURSIVE Insert(_, _)
Insert(sorted, e) ==
    IF sorted = <<>> THEN <<e>>
    ELSE IF Head(sorted)[2] <= e[2]
         THEN <<Head(sorted)>> \o Insert(Tail(sorted), e)
         ELSE <<e>> \o sorted

\* sorted(..., reverse=True): highest score first
RECURSIVE SortedDescending(_)
SortedDescending(pairs) ==
    IF pairs = <<>> THEN <<>>
    ELSE LET rest == SortedDescending(SubSeq(pairs, 1, Len(pairs) - 1))
             e == pairs[Len(pairs)]
             above == SelectSeq(rest, LAMBDA q : q[2] >= e[2])
             below == SelectSeq(rest, LAMBDA q : q[2] < e[2])
         IN  above \o <<e>> \o below

RECURSIVE Sorted(_)
Sorted(pairs) ==
    IF pairs = <<>> THEN <<>>
    ELSE Insert(Sorted(SubSeq(pairs, 1, Len(pairs) - 1)), pairs[Len(pairs)])

\* line 134: star_id.replace(" ", "_")
SafeId(star_id) == [j \in 1..Len(star_id) |-> IF star_id[j] = " " THEN "_" ELSE star_id[j]]

\* line 135: the file name below save_path, f"RANK_{rank+1}_{safe_id}.png"
Filename(rk, safe_id) ==
    <<"R", "A", "N", "K", "_">> \o Str(rk + 1) \o <<"_">> \o safe_id
        \o <<".", "p", "n", "g">>

\* plt.savefig(filename): TRUE when the file is written, FALSE when it raises.
\* A separator in the name puts the file in a directory below save_path that
\* ensure_dirs never made.
SaveOutcomes(filename) ==
    IF \E j \in DOMAIN filename : filename[j] = "/" THEN {TRUE, FALSE} ELSE {TRUE}

\* the call of line 145 with what fetch_and_process can return
ScanInit ==
    /\ pc = "scan"
    /\ X \in SeqsUpTo(ScanRows, TARGET_TOTAL_STARS)
    /\ ids \in {s \in SeqsUpTo(ScanIds, TARGET_TOTAL_STARS) : Len(s) = Len(X)}
    /\ predictions = <<>>
    /\ scores = <<>>
    /\ scored_anomalies = <<>>
    /\ rank = 0
    /\ artifacts = <<>>
    /\ fit_calls = 0
    /\ FetchIdle
    /\ FluxIdle

\* lines 106-108
ReturnNoData ==
    /\ pc = "scan"
    /\ NoData(X)
    /\ pc' = "done"
    /\ UNCHANGED <<fetch_vars, flux_vars, scan_vars>>

\* lines 112-121
FitPredict ==
    /\ pc = "scan"
    /\ ~NoData(X)
    /\ fit_calls' = fit_calls + 1
    /\ \E p \in [1..Len(X) -> Labels], sc \in [1..Len(X) -> ScoreValues] :
          /\ predictions' = p
          /\ scores' = sc
          /\ scored_anomalies' = Sorted(ZipScores(Where(p, -1), sc))
    /\ rank' = 0
    /\ pc' = "render"
    /\ UNCHANGED <<X, ids, artifacts, fetch_vars, flux_vars>>

\* lines 123-139, one iteration of the rendering loop
Render ==
    /\ pc = "render"
    /\ rank < Len(scored_anomalies)
    /\ LET idx == scored_anomalies[rank + 1][1]
           score == scored_anomalies[rank + 1][2]
           star_id == ids[idx]
           filename == Filename(rank, SafeId(star_id))
       IN  \E saved \in SaveOutcomes(filename) :
              IF saved
              THEN /\ artifacts' = Append(artifacts,
                                      [filename |-> filename, data |-> X[idx],
                                       title_rank |-> rank + 1, title_id |-> star_id,
                                       score |-> score, idx |-> idx])
                   /\ rank' = rank + 1
                   /\ pc' = "render"
              ELSE /\ pc' = "raised"
                   /\ UNCHANGED <<artifacts, rank>>
    /\ UNCHANGED <<X, ids, predictions, scores, scored_anomalies, fit_calls,
                   fetch_vars, flux_vars>>

\* the loop of line 123 ends and run_ai_scan returns
ReturnFromScan ==
    /\ pc = "render"
    /\ rank = Len(scored_anomalies)
    /\ pc' = "done"
    /\ UNCHANGED <<fetch_vars, flux_vars, scan_vars>>

NextScan ==
    \/ ReturnNoData
    \/ FitPredict
    \/ Render
    \/ ReturnFromScan

SpecScan == ScanInit /\ [][NextScan]_vars

(***************************************************************************)
(* Properties                                                              *)
(***************************************************************************)

\* C1: every vector appended to all_data has length exactly POINTS_PER_CURVE
\* and holds no NaN or infinite value, at every point of fetch_and_process.
C1_VectorsFixedLengthAndValid ==
    \A k \in DOMAIN all_data :
        /\ Len(all_data[k]) = POINTS_PER_CURVE
        /\ \A j \in DOMAIN all_data[k] : all_data[k][j] \notin Invalid

\* a vector with an entry 1.0, which the resampled flux of Spec never holds:
\* the entry was padded or replaced
C1_Witness ==
    /\ Len(all_data) >= 1
    /\ \E j \in DOMAIN all_data[1] : all_data[1][j] = One

\* C2: after length reconciliation of a flux of length L, the result has
\* length N; its first min(L, N) entries are those of the input in order; for
\* L < N the N-L last entries are 1.0; for L = N it is the input itself.
C2_LengthReconciliation ==
    pc = "reconciled" =>
        LET L == Len(lc_flux)
            N == POINTS_PER_CURVE
        IN  /\ L > N => /\ Len(flux) = N
                        /\ \A j \in 1..N : flux[j] = lc_flux[j]
            /\ L < N => /\ Len(flux) = N
                        /\ \A j \in 1..L : flux[j] = lc_flux[j]
                        /\ \A j \in (L + 1)..N : flux[j] = One
            /\ L = N => flux = lc_flux

\* a non-empty flux shorter than N has been padded
C2_Witness ==
    /\ pc = "reconciled"
    /\ Len(lc_flux) >= 1
    /\ Len(lc_flux) < POINTS_PER_CURVE
    /\ lc_flux[1] # One

\* The light curves that fail a conditioning step: a pipeline call raises,
\* or there are fewer than two samples, or all time stamps are the same.
FailingSeries ==
    {lc \in SeriesInputs :
        \/ lc.exc \in PipelineCalls
        \/ Len(lc.times) <= 1
        \/ \A j, k \in DOMAIN lc.times : lc.times[j] = lc.times[k]}

\* C3: an iteration of the series loop on a None entry or on a failing
\* light curve appends nothing to all_data or all_ids, and control stays in
\* the series loop at the next entry.
C3_FailingSeriesDropped ==
    [][ ( \/ (pc = "series" /\ i < Len(lcs) /\ lcs[i + 1] = NoneLc)
          \/ \E lc \in FailingSeries : ProcessOne(lc) )
        => ( /\ all_data' = all_data
             /\ all_ids' = all_ids
             /\ pc' = "series"
             /\ i' = i + 1 ) ]_vars

\* first batch, two downloaded light curves: the first was dropped and the
\* second was then appended
C3_Witness ==
    /\ pc = "series"
    /\ anchor_idx = 1
    /\ lcs = <<1, 2>>
    /\ i = 2
    /\ search_table[1] # search_table[2]
    /\ all_ids = <<Str(search_table[2])>>

\* C4: all_data and all_ids have the same length after every series, after
\* every batch and at the return.
C4_EqualLength == Len(all_data) = Len(all_ids)

\* returned with one row, the last anchor having failed
C4_Witness ==
    /\ pc = "returned"
    /\ Len(all_ids) = 1
    /\ log = "Error in this sector"

\* C5: in every row, the identifier is the one of the series the vector was
\* computed from.
C5_IdentifierOfItsSeries ==
    \A k \in DOMAIN all_ids : all_ids[k] = all_src[k]

\* C6: with an empty matrix run_ai_scan calls neither the scoring nor the
\* rendering, writes nothing and does not raise.
C6_EmptyMatrixNoScan ==
    Len(X) = 0 =>
        /\ fit_calls = 0
        /\ predictions = <<>>
        /\ scores = <<>>
        /\ artifacts = <<>>
        /\ pc \in {"scan", "done"}

C6_Witness ==
    /\ Len(X) = 0
    /\ pc = "done"

\* What C7 says of the artifacts written so far, whatever `before` is taken
\* as the order of two scores: each is a row labelled anomalous, drawn with
\* its own data, identifier and score, ranked by its 1-based position; no
\* row twice; in score order; no anomalous row left out comes before a
\* rendered one; and at the return none is left out.
RenderedInOrder(before(_, _)) ==
    /\ \A k \in DOMAIN artifacts :
          /\ artifacts[k].title_rank = k
          /\ predictions[artifacts[k].idx] = -1
          /\ artifacts[k].score = scores[artifacts[k].idx]
          /\ artifacts[k].data = X[artifacts[k].idx]
          /\ artifacts[k].title_id = ids[artifacts[k].idx]
    /\ \A j, k \in DOMAIN artifacts :
          j < k => /\ artifacts[j].idx # artifacts[k].idx
                   /\ before(artifacts[j].score, artifacts[k].score)
    /\ \A r \in DOMAIN predictions :
          (predictions[r] = -1 /\ \A k \in DOMAIN artifacts : artifacts[k].idx # r)
              => \A k \in DOMAIN artifacts : before(artifacts[k].score, scores[r])
    /\ pc = "done" =>
          {artifacts[k].idx : k \in DOMAIN artifacts}
              = {r \in DOMAIN predictions : predictions[r] = -1}

\* C7 as stated: the anomalous rows are rendered in strictly ascending score
\* order, rank k going to the k-th.
C7_StrictlyAscending == RenderedInOrder(LAMBDA a, b : a < b)

\* C7 amended: the order is ascending but not strict (equal scores may
\* follow one another).
C7_Ascending == RenderedInOrder(LAMBDA a, b : a <= b)

\* two anomalies of different scores rendered, the lower-scored row being
\* the second row of the matrix
C7_Witness ==
    /\ pc = "done"
    /\ Len(artifacts) = 2
    /\ artifacts[1].idx = 2
    /\ artifacts[1].score < artifacts[2].score

\* Characters that cannot be part of a file name
UnsafeChars == {"/", "\\", ":", "*", "?", "\"", "<", ">", "|", " "}

\* C8: no artifact name holds a character unsafe for file names, each name
\* starts with its rank, and no two artifacts of a run share a name.
C8_NamesSanitizedAndDistinct ==
    /\ \A k \in DOMAIN artifacts :
          /\ \A j \in DOMAIN artifacts[k].filename :
                artifacts[k].filename[j] \notin UnsafeChars
          /\ LET prefix == <<"R", "A", "N", "K", "_">> \o Str(k) \o <<"_">>
             IN  SubSeq(artifacts[k].filename, 1, Len(prefix)) = prefix
    /\ \A j, k \in DOMAIN artifacts :
          j # k => artifacts[j].filename # artifacts[k].filename

\* The searches and downloads that fail: an exception, no result, nothing
\* downloaded.
FailedSearches ==
    {s \in SearchOutcomes(TARGET_TOTAL_STARS) : s.raised \/ s.table = <<>>}

FailedDownloads ==
    {d \in DownloadOutcomes(search_table) : d.kind \in {"raise", "None"} \/ d.lcs = <<>>}

\* C9: a failing search or download leaves all_data and all_ids as they
\* were and takes the loop to the next anchor with the target still unmet,
\* so that this anchor is searched if there is one.
C9_FailedAnchorSkipped ==
    [][ ( \/ \E s \in FailedSearches : SearchWith(s)
          \/ \E d \in FailedDownloads : DownloadWith(d) )
        => ( /\ all_data' = all_data
             /\ all_ids' = all_ids
             /\ pc' = "anchor"
             /\ anchor_idx' = anchor_idx + 1
             /\ Len(all_data') < TARGET_TOTAL_STARS ) ]_vars

\* the second anchor raised after the first had collected a row, and the
\* loop stands at the third
C9_Witness ==
    /\ pc = "anchor"
    /\ anchor_idx = 3
    /\ log = "Error in this sector"
    /\ Len(all_data) = 1

\* C10: anchors are entered in the order of ANCHOR_STARS, one search each;
\* a search is made only below the target, with limit = target - count; the
\* count never exceeds the target; the function returns only with the
\* target reached or the list exhausted.
C10_BoundedShotgun ==
    /\ [](/\ Len(all_data) <= TARGET_TOTAL_STARS
          /\ pc = "download" =>
                /\ anchor = ANCHOR_STARS[anchor_idx]
                /\ needed = TARGET_TOTAL_STARS - Len(all_data)
                /\ searches = anchor_idx
          /\ pc = "returned" =>
                \/ Len(all_data) >= TARGET_TOTAL_STARS
                \/ anchor_idx > Len(ANCHOR_STARS))
    /\ [][ /\ anchor_idx' \in {anchor_idx, anchor_idx + 1}
           /\ searches' # searches =>
                 /\ searches' = searches + 1
                 /\ Len(all_data) < TARGET_TOTAL_STARS
                 /\ needed' = TARGET_TOTAL_STARS - Len(all_data)
                 /\ anchor' = ANCHOR_STARS[anchor_idx] ]_vars

\* the first anchor filled the target and the loop broke at the second
C10_Witness ==
    /\ pc = "returned"
    /\ Len(all_data) = TARGET_TOTAL_STARS
    /\ anchor_idx = 2
    /\ searches = 1

====
